---- MODULE Spec2Model ----
(***************************************************************************)
(* Model of the dynamic-form front end: the fill-out page                  *)
(* (src/pages/forms/[id].js) with its conditional-field expansion, rule    *)
(* synthesis, validation and answer serialization, and the form editor of  *)
(* the admin pages (src/pages/admin/forms/[id].js) with its field list,    *)
(* field editors and nested-field managers                                 *)
(* (src/components/DraggableFieldList.js, src/unnamed/part_000).           *)
(*                                                                         *)
(* Field names, labels, option values and typed text are TLA+ strings;     *)
(* Len, \o and SubSeq act on them character by character.                  *)
(***************************************************************************)
EXTENDS Integers, Sequences, FiniteSets, TLC

VARIABLES
  serverForm,      \* what the forms service answers for this id
  form,            \* useState(null): the loaded schema, NoForm before
  loading,         \* useState(true)
  error,           \* useState(""): the page-level error
  submitSuccess,   \* useState(false)
  selectedValues,  \* useState({}): field name -> chosen option
  values,          \* Formik values of the mounted Formik: ordered map
  errors,          \* Formik errors of the mounted Formik: name -> message
  isSubmitting,    \* Formik isSubmitting of the mounted Formik
  timers,          \* validateField calls scheduled by file inputs
  requests,        \* the submission requests: how many sent, how many in flight
  sent,            \* what the step just taken handed to submissionsAPI.submit
  lastSelection,   \* the last selection event, kept to state the properties
  page,            \* the admin page shown: NewForm, EditForm, or neither
  stored,          \* the fields of the document the forms service holds
  formFields,      \* useState([]) of NewForm and EditForm: fields
  fieldsWithStableIds,  \* the useMemo of DraggableFieldList
  editors,         \* the state of each FieldEditor: isEditing and formData
  saved,           \* what the step just taken handed to formsAPI
  notice,          \* the alert or setError message of the step just taken
  edits            \* the operations the administrator has done on the page

pageVars == << serverForm, form, loading, error, submitSuccess, selectedValues,
               values, errors, isSubmitting, timers, requests, sent,
               lastSelection >>

editorVars == << page, stored, formFields, fieldsWithStableIds, editors, saved,
                 notice, edits >>

vars == << pageVars, editorVars >>

(***************************************************************************)
(* Bounds of the model.                                                    *)
(***************************************************************************)
MaxRequests == 2   \* submission requests in flight at once
MaxTimers == 1     \* validateField calls of file inputs pending at once

(***************************************************************************)
(* Strings.                                                                *)
(***************************************************************************)
CharAt(s, i) == SubSeq(s, i, i)

StartsWith(s, p) == Len(s) >= Len(p) /\ SubSeq(s, 1, Len(p)) = p

\* String.prototype.replace(p, "") for a p that is a prefix of s
RemovePrefix(s, p) == SubSeq(s, Len(p) + 1, Len(s))

LowerLetters == {"a","b","c","d","e","f","g","h","i","j","k","l","m",
                 "n","o","p","q","r","s","t","u","v","w","x","y","z"}
Digits == {"0","1","2","3","4","5","6","7","8","9"}

ToLowerChar(c) ==
  CASE c = "A" -> "a" [] c = "B" -> "b" [] c = "C" -> "c" [] c = "D" -> "d"
    [] c = "E" -> "e" [] c = "F" -> "f" [] c = "G" -> "g" [] c = "H" -> "h"
    [] c = "I" -> "i" [] c = "J" -> "j" [] c = "K" -> "k" [] c = "L" -> "l"
    [] c = "M" -> "m" [] c = "N" -> "n" [] c = "O" -> "o" [] c = "P" -> "p"
    [] c = "Q" -> "q" [] c = "R" -> "r" [] c = "S" -> "s" [] c = "T" -> "t"
    [] c = "U" -> "u" [] c = "V" -> "v" [] c = "W" -> "w" [] c = "X" -> "x"
    [] c = "Y" -> "y" [] c = "Z" -> "z" [] OTHER -> c

RECURSIVE MapChars(_, _, _)
\* applies the character map kind to every character of s from position i
MapChars(s, i, kind) ==
  IF i > Len(s) THEN ""
  ELSE LET c == CharAt(s, i)
           d == IF kind = "lower" THEN ToLowerChar(c)
                ELSE IF c \in LowerLetters \cup Digits \cup {"_"} THEN c
                ELSE "_"
       IN d \o MapChars(s, i + 1, kind)

RECURSIVE CollapseUnderscores(_, _)
\* .replace(/_+/g, '_')
CollapseUnderscores(s, i) ==
  IF i > Len(s) THEN ""
  ELSE IF CharAt(s, i) = "_" /\ i < Len(s) /\ CharAt(s, i + 1) = "_"
       THEN CollapseUnderscores(s, i + 1)
       ELSE CharAt(s, i) \o CollapseUnderscores(s, i + 1)

RECURSIVE TrimUnderscores(_)
\* .replace(/^_+|_+$/g, '')
TrimUnderscores(s) ==
  IF Len(s) = 0 THEN s
  ELSE IF CharAt(s, 1) = "_" THEN TrimUnderscores(SubSeq(s, 2, Len(s)))
  ELSE IF CharAt(s, Len(s)) = "_" THEN TrimUnderscores(SubSeq(s, 1, Len(s) - 1))
  ELSE s

\* generateFieldName: the local-name normalizer of the editor
generateFieldName(label) ==
  IF label = "" THEN ""
  ELSE LET lowered  == MapChars(label, 1, "lower")
           replaced == MapChars(lowered, 1, "strip")
           name     == TrimUnderscores(CollapseUnderscores(replaced, 1))
           prefixed == IF name # "" /\ CharAt(name, 1) \notin LowerLetters
                       THEN "field_" \o name ELSE name
       IN IF prefixed = "" THEN "field" ELSE prefixed

(***************************************************************************)
(* Values held by Formik.  A JavaScript value is a record of its kind and  *)
(* its text: undefined, null, a string, a boolean or a File (by name).     *)
(***************************************************************************)
Undefined   == [k |-> "undefined", s |-> ""]
Null        == [k |-> "null", s |-> ""]
Str(s)      == [k |-> "string", s |-> s]
Bool(b)     == [k |-> "boolean", s |-> IF b THEN "true" ELSE "false"]
Num(s)      == [k |-> "number", s |-> s]
FileOf(n)   == [k |-> "File", s |-> n]

\* JavaScript truthiness of a value
Truthy(v) == \/ v.k \in {"File", "number"}
             \/ v.k = "string" /\ v.s # ""
             \/ v.k = "boolean" /\ v.s = "true"

(***************************************************************************)
(* Ordered maps (JavaScript objects with insertion order): sequences of    *)
(* [name, value] entries with pairwise distinct names.                     *)
(***************************************************************************)
Keys(m) == {m[i].name : i \in DOMAIN m}
HasKey(m, n) == n \in Keys(m)
Get(m, n) ==
  IF HasKey(m, n) THEN m[CHOOSE i \in DOMAIN m : m[i].name = n].value
  ELSE Undefined
\* obj[n] = v: an existing key keeps its place, a new key goes last
Put(m, n, v) ==
  IF HasKey(m, n)
  THEN [i \in DOMAIN m |-> IF m[i].name = n THEN [name |-> n, value |-> v] ELSE m[i]]
  ELSE Append(m, [name |-> n, value |-> v])

RECURSIVE PutAll(_, _)
PutAll(m, entries) ==
  IF entries = <<>> THEN m
  ELSE PutAll(Put(m, Head(entries).name, Head(entries).value), Tail(entries))

RECURSIVE Flatten(_)
Flatten(ss) == IF ss = <<>> THEN <<>> ELSE Head(ss) \o Flatten(Tail(ss))

(***************************************************************************)
(* Field definitions.  conditionalFields is an ordered map from an option  *)
(* to the list of nested fields; validation holds only the keys that are   *)
(* set.                                                                    *)
(***************************************************************************)
NoValidation == [k \in {} |-> 0]

Has(validation, key) == key \in DOMAIN validation

\* FieldEditor.handleChange: a fresh field's name follows its label
TopField(label, type, required, options, cond, validation) ==
  [ label |-> label, name |-> generateFieldName(label), type |-> type,
    required |-> required, options |-> options, conditionalFields |-> cond,
    validation |-> validation ]

\* NestedFieldsManager.handleNewFieldChange: a nested field's name follows its label
NestedField(label, type, required) ==
  [ label |-> label, name |-> generateFieldName(label), type |-> type,
    required |-> required, options |-> <<>>, conditionalFields |-> <<>>,
    validation |-> NoValidation ]

\* field.conditionalFields[option] is set (an array, hence truthy)
HasBranch(field, option) == HasKey(field.conditionalFields, option)
\* field.conditionalFields?.[option] || []
Branch(field, option) ==
  IF HasBranch(field, option) THEN Get(field.conditionalFields, option) ELSE <<>>

Selectable(field) == field.type = "radio" \/ field.type = "select"

\* selectedValues[name]; the empty string stands for undefined, both are falsy
Selected(sel, name) == IF name \in DOMAIN sel THEN sel[name] ELSE ""

(***************************************************************************)
(* Field Expander: getAllFields.                                           *)
(***************************************************************************)
\* the renaming done on the nested object itself instead of on a copy
NestedCopyInPlace(field, nestedField) ==
  LET renamed == [nestedField EXCEPT !.name = field.name \o "_" \o nestedField.name]
  IN [ copy |-> renamed, original |-> renamed ]

\* lines 26-29: the nested field is copied and the copy is renamed; the
\* original object in the schema stays as it is
NestedCopy(field, nestedField) ==
  [ copy     |-> [nestedField EXCEPT !.name = field.name \o "_" \o nestedField.name],
    original |-> nestedField ]

\* the expansion with the test of line 19 reduced to "something is selected":
\* the first branch is pushed whatever the selected option
ActiveCopiesAnyBranch(field, sel) ==
  IF Selectable(field) /\ field.conditionalFields # <<>>
     /\ Selected(sel, field.name) # ""
  THEN LET conditionalFields == field.conditionalFields[1].value
       IN [j \in DOMAIN conditionalFields |->
             NestedCopy(field, conditionalFields[j]).copy]
  ELSE <<>>

\* lines 13-34 for one top-level field: the copies it pushes
ActiveCopies(field, sel) ==
  IF Selectable(field) /\ field.conditionalFields # <<>>
  THEN LET selectedValue == Selected(sel, field.name)
       IN IF selectedValue # "" /\ HasBranch(field, selectedValue)
          THEN LET conditionalFields == Branch(field, selectedValue)
               IN [j \in DOMAIN conditionalFields |->
                     NestedCopy(field, conditionalFields[j]).copy]
          ELSE <<>>
  ELSE <<>>

\* the schema as the call leaves it: every nested object the loop visited is
\* what NestedCopy left in its place
FieldAfterExpand(field, sel) ==
  IF ActiveCopies(field, sel) = <<>> THEN field
  ELSE LET selectedValue == Selected(sel, field.name)
       IN [field EXCEPT !.conditionalFields =
             [b \in DOMAIN field.conditionalFields |->
                IF field.conditionalFields[b].name = selectedValue
                THEN [name  |-> selectedValue,
                      value |-> [j \in DOMAIN field.conditionalFields[b].value |->
                                   NestedCopy(field, field.conditionalFields[b].value[j]).original]]
                ELSE field.conditionalFields[b]]]

FieldsAfterExpand(fields, sel) ==
  [i \in DOMAIN fields |-> FieldAfterExpand(fields[i], sel)]

\* getAllFields(fields, selectedValues): allFields = [...fields], then the
\* copies of every active branch are pushed in the order of their parents
getAllFields(fields, sel) ==
  fields \o Flatten([i \in DOMAIN fields |-> ActiveCopies(fields[i], sel)])

FieldNames(fieldList) == [i \in DOMAIN fieldList |-> fieldList[i].name]
NameSet(fieldList) == {fieldList[i].name : i \in DOMAIN fieldList}

(***************************************************************************)
(* getInitialValues.                                                       *)
(***************************************************************************)
InitialValueOf(field) ==
  IF field.type = "checkbox" THEN Bool(FALSE)
  ELSE IF field.type = "number" THEN Undefined
  ELSE IF field.type = "file" THEN Null
  ELSE Str("")

getInitialValues(fields, sel) ==
  LET allFields == getAllFields(fields, sel)
  IN PutAll(<<>>, [i \in DOMAIN allFields |->
                     [name |-> allFields[i].name, value |-> InitialValueOf(allFields[i])]])

(***************************************************************************)
(* Text predicates the rules use.                                          *)
(***************************************************************************)
RECURSIVE AllCharsIn(_, _)
AllCharsIn(s, set) ==
  Len(s) = 0 \/ (CharAt(s, 1) \in set /\ AllCharsIn(SubSeq(s, 2, Len(s)), set))

RECURSIVE TrimSpaces(_)
\* String.prototype.trim
TrimSpaces(s) ==
  IF Len(s) = 0 THEN s
  ELSE IF CharAt(s, 1) = " " THEN TrimSpaces(SubSeq(s, 2, Len(s)))
  ELSE IF CharAt(s, Len(s)) = " " THEN TrimSpaces(SubSeq(s, 1, Len(s) - 1))
  ELSE s

\* Number(text) is a number: the texts a number input can hold are digit strings
IsNumeric(s) == Len(s) > 0 /\ AllCharsIn(s, Digits)

DigitValue(c) ==
  CASE c = "0" -> 0 [] c = "1" -> 1 [] c = "2" -> 2 [] c = "3" -> 3 [] c = "4" -> 4
    [] c = "5" -> 5 [] c = "6" -> 6 [] c = "7" -> 7 [] c = "8" -> 8 [] c = "9" -> 9

RECURSIVE ToNumber(_)
ToNumber(s) ==
  IF Len(s) = 0 THEN 0
  ELSE ToNumber(SubSeq(s, 1, Len(s) - 1)) * 10 + DigitValue(CharAt(s, Len(s)))

\* an e-mail address: one "@" with text on both sides and a dot after it
IsEmail(s) ==
  \E i \in 2..(Len(s) - 1) :
    /\ CharAt(s, i) = "@"
    /\ \A j \in 1..Len(s) : (j # i) => CharAt(s, j) \notin {"@", " "}
    /\ \E j \in (i + 2)..(Len(s) - 1) : CharAt(s, j) = "."

\* a calendar date as a date input yields it: yyyy-mm-dd
IsDate(s) ==
  /\ Len(s) = 10
  /\ CharAt(s, 5) = "-" /\ CharAt(s, 8) = "-"
  /\ AllCharsIn(SubSeq(s, 1, 4) \o SubSeq(s, 6, 7) \o SubSeq(s, 9, 10), Digits)

\* the patterns of the schemas of this model
LowerWordPattern == "^[a-z]+$"
BrokenPattern    == "("
\* new RegExp(pattern) does not throw
RegexCompiles(pattern) == pattern # BrokenPattern
\* value.search(new RegExp(pattern)) !== -1
RegexMatches(pattern, s) ==
  IF pattern = LowerWordPattern THEN Len(s) > 0 /\ AllCharsIn(s, LowerLetters)
  ELSE TRUE

(***************************************************************************)
(* Rule Synthesizer: generateValidationSchema.  A rule is the chain of Yup *)
(* calls the code makes for the field, in order.                           *)
(***************************************************************************)
Call(op, n, list, pat, msg) == [op |-> op, n |-> n, list |-> list, pat |-> pat, msg |-> msg]
Simple(op) == Call(op, 0, <<>>, "", "")

\* lines 52-63 and 95-106: minLength and maxLength, skipped when falsy
LengthCalls(field) ==
  (IF Has(field.validation, "minLength") /\ field.validation.minLength # 0
   THEN << Call("min", field.validation.minLength, <<>>, "",
                field.label \o " must be at least "
                  \o ToString(field.validation.minLength) \o " characters") >>
   ELSE <<>>)
  \o
  (IF Has(field.validation, "maxLength") /\ field.validation.maxLength # 0
   THEN << Call("max", field.validation.maxLength, <<>>, "",
                field.label \o " must be at most "
                  \o ToString(field.validation.maxLength) \o " characters") >>
   ELSE <<>>)

\* a number rule that knows the minimum alone
RangeCallsMinOnly(field) ==
  IF Has(field.validation, "min")
  THEN << Call("min", field.validation.min, <<>>, "",
              field.label \o " must be at least " \o ToString(field.validation.min)) >>
  ELSE <<>>

\* lines 78-89: min and max of a number, applied when not undefined
RangeCalls(field) ==
  (IF Has(field.validation, "min")
   THEN << Call("min", field.validation.min, <<>>, "",
                field.label \o " must be at least " \o ToString(field.validation.min)) >>
   ELSE <<>>)
  \o
  (IF Has(field.validation, "max")
   THEN << Call("max", field.validation.max, <<>>, "",
                field.label \o " must be at most " \o ToString(field.validation.max)) >>
   ELSE <<>>)

\* lines 107-117: the pattern, dropped when it does not compile
RegexCalls(field) ==
  IF Has(field.validation, "regex") /\ field.validation.regex # ""
     /\ RegexCompiles(field.validation.regex)
  THEN << Call("matches", 0, <<>>, field.validation.regex,
               field.label \o " format is invalid") >>
  ELSE <<>>

RequiredMessage(field) == field.label \o " is required"

\* a switch that gives a file field the optional rule whether or not the
\* field is required, and every other field the plain string rule
KindCallsFileOptional(field) ==
  IF field.type = "file"
  THEN << Simple("mixed"), Call("nullable", 1, <<>>, "", ""), Simple("notRequired") >>
  ELSE << Simple("string") >>

\* lines 47-172: the switch on field.type
KindCalls(field) ==
  CASE field.type = "email" ->
         << Simple("string"),
            Call("email", 0, <<>>, "", field.label \o " must be a valid email address") >>
         \o LengthCalls(field)
    [] field.type = "number" ->
         << Simple("number"), Simple("transformEmptyToUndefined"),
            Call("typeError", 0, <<>>, "", field.label \o " must be a valid number"),
            Call("nullable", 1, <<>>, "", "") >>
         \o RangeCalls(field)
    [] field.type \in {"text", "textarea"} ->
         << Simple("string") >> \o LengthCalls(field) \o RegexCalls(field)
    [] field.type = "date" ->
         << Simple("date"), Simple("transformBlankToUndefined"),
            Call("typeError", 0, <<>>, "", field.label \o " must be a valid date"),
            Call("nullable", 1, <<>>, "", "") >>
         \o (IF field.required
             THEN << Call("required", 0, <<>>, "", RequiredMessage(field)),
                     Call("nullable", 0, <<>>, "", "") >>
             ELSE <<>>)
    [] field.type \in {"select", "radio"} ->
         << Simple("string") >>
         \o (IF Len(field.options) > 0
             THEN << Call("oneOf", 0, field.options, "",
                          field.label \o " must be one of the provided options") >>
             ELSE <<>>)
    [] field.type = "checkbox" -> << Simple("boolean") >>
    [] field.type = "file" ->
         IF field.required
         THEN << Simple("mixed"),
                 Call("testFileRequired", 0, <<>>, "", RequiredMessage(field)) >>
         ELSE << Simple("mixed"), Call("nullable", 1, <<>>, "", ""), Simple("notRequired") >>
    [] OTHER -> << Simple("string") >>

\* lines 174-196: required or optional
RequiredCalls(field) ==
  IF field.required /\ field.type # "file"
  THEN IF field.type = "checkbox"
       THEN << Call("oneOf", 0, << "true" >>, "", RequiredMessage(field)) >>
       ELSE IF field.type \in {"number", "date"}
       THEN << Call("required", 0, <<>>, "", RequiredMessage(field)),
               Call("nullable", 0, <<>>, "", "") >>
       ELSE << Call("required", 0, <<>>, "", RequiredMessage(field)) >>
  ELSE IF ~field.required
  THEN IF field.type \in {"number", "date"}
       THEN << Call("nullable", 1, <<>>, "", ""), Simple("notRequired") >>
       ELSE IF field.type # "checkbox" /\ field.type # "file"
       THEN << Call("nullable", 1, <<>>, "", ""), Simple("notRequired") >>
       ELSE <<>>
  ELSE <<>>

FieldSchema(field) == KindCalls(field) \o RequiredCalls(field)

\* generateValidationSchema: schema[field.name] = fieldSchema for every
\* field of getAllFields, a later field of the same name replacing an earlier
generateValidationSchema(fields, sel) ==
  LET allFields == getAllFields(fields, sel)
  IN PutAll(<<>>, [i \in DOMAIN allFields |->
                     [name |-> allFields[i].name, value |-> FieldSchema(allFields[i])]])

(***************************************************************************)
(* Validator: what Yup does with a rule, and Formik's call of it.          *)
(***************************************************************************)
HasCall(rule, op) == \E i \in DOMAIN rule : rule[i].op = op

LastCall(rule, ops) ==
  LET hits == {i \in DOMAIN rule : rule[i].op \in ops}
  IN rule[CHOOSE i \in hits : \A j \in hits : j <= i]

\* the last of required() / notRequired() decides
IsRequired(rule) ==
  HasCall(rule, "required") /\ LastCall(rule, {"required", "notRequired"}).op = "required"

\* the last of nullable() / nullable(false) decides; a schema is not nullable at first
IsNullable(rule) ==
  HasCall(rule, "nullable") /\ LastCall(rule, {"nullable"}).n = 1

MessageOf(rule, op) == LastCall(rule, {op}).msg

TypeErrorMessage(rule) ==
  IF HasCall(rule, "typeError") THEN MessageOf(rule, "typeError")
  ELSE "value is not of the type " \o rule[1].op

\* the cast of a value that is not undefined: the transform of the base type,
\* then the transform the rule adds
Cast(rule, v) ==
  LET base == rule[1].op
  IN CASE v.k = "undefined" -> v
       [] base = "string" ->
            IF v.k = "File" THEN Str("[object File]")
            ELSE IF v.k \in {"boolean", "number"} THEN Str(v.s)
            ELSE v
       [] base = "number" ->
            IF HasCall(rule, "transformEmptyToUndefined") /\ (v = Str("") \/ v.k = "null")
            THEN Undefined
            ELSE IF v.k = "string" /\ IsNumeric(v.s) THEN Num(v.s)
            ELSE IF v.k = "boolean" THEN Num(IF v.s = "true" THEN "1" ELSE "0")
            ELSE v
       [] base = "date" ->
            IF HasCall(rule, "transformBlankToUndefined")
               /\ v.k = "string" /\ TrimSpaces(v.s) = ""
            THEN Undefined
            ELSE IF v.k = "string" /\ IsDate(v.s) THEN [k |-> "Date", s |-> v.s]
            ELSE v
       [] base = "boolean" ->
            IF v.k = "string" /\ v.s \in {"true", "false"} THEN [k |-> "boolean", s |-> v.s]
            ELSE v
       [] OTHER -> v

IsType(base, v) ==
  CASE base = "string"  -> v.k = "string"
    [] base = "number"  -> v.k = "number"
    [] base = "date"    -> v.k = "Date"
    [] base = "boolean" -> v.k = "boolean"
    [] OTHER            -> TRUE

\* one test of the chain on a present value of the right type
TestPasses(rule, call, v) ==
  LET base == rule[1].op
  IN CASE call.op = "required" -> ~(base = "string" /\ v.s = "")
       [] call.op = "email"    -> v.s = "" \/ IsEmail(v.s)
       [] call.op = "min"      -> IF base = "number" THEN ToNumber(v.s) >= call.n
                                  ELSE Len(v.s) >= call.n
       [] call.op = "max"      -> IF base = "number" THEN ToNumber(v.s) <= call.n
                                  ELSE Len(v.s) <= call.n
       [] call.op = "matches"  -> RegexMatches(call.pat, v.s)
       [] call.op = "oneOf"    -> \E i \in DOMAIN call.list : call.list[i] = v.s
       [] call.op = "testFileRequired" ->
            Truthy(v) /\ (v.k = "File" \/ (v.k = "string" /\ TrimSpaces(v.s) # ""))
       [] OTHER -> TRUE

Valid == ""

\* the outcome of a rule on a value: Valid, or the message of the first failure
YupValidate(rule, v0) ==
  LET v == Cast(rule, v0)
      failing == {i \in DOMAIN rule : ~TestPasses(rule, rule[i], v)}
  IN IF v.k = "undefined"
     THEN IF HasCall(rule, "testFileRequired") THEN MessageOf(rule, "testFileRequired")
          ELSE IF IsRequired(rule) THEN MessageOf(rule, "required")
          ELSE Valid
     ELSE IF v.k = "null"
     THEN IF HasCall(rule, "testFileRequired") THEN MessageOf(rule, "testFileRequired")
          ELSE IF IsRequired(rule) THEN MessageOf(rule, "required")
          ELSE IF ~IsNullable(rule) THEN TypeErrorMessage(rule)
          ELSE Valid
     ELSE IF ~IsType(rule[1].op, v) THEN TypeErrorMessage(rule)
     ELSE IF failing = {} THEN Valid
     ELSE rule[CHOOSE i \in failing : \A j \in failing : i <= j].msg

\* Formik's prepareDataForValidation: an empty string is handed over as undefined
PrepareForValidation(v) == IF v = Str("") THEN Undefined ELSE v

\* the outcome for one name of the rule set, on the values of the form
Outcome(schema, vals, name) ==
  IF HasKey(schema, name)
  THEN YupValidate(Get(schema, name), PrepareForValidation(Get(vals, name)))
  ELSE Valid

\* a validation that reports nothing
ValidateFormNothing(schema, vals) == [n \in {} |-> ""]

\* Formik's validateYupSchema and yupToFormErrors: a message per failing name
ValidateForm(schema, vals) ==
  LET outcomes == [n \in Keys(schema) |-> Outcome(schema, vals, n)]
  IN [n \in {m \in Keys(schema) : outcomes[m] # Valid} |-> outcomes[n]]


(***************************************************************************)
(* Answer Serializer: the body of handleSubmit up to the request.          *)
(***************************************************************************)
\* a value used as a property key or as an operand of ||
KeyText(v) ==
  IF ~Truthy(v) THEN ""
  ELSE IF v.k = "File" THEN "[object File]"
  ELSE v.s

\* String(value), with null and undefined as "" (lines 348-357)
StringValue(v) ==
  IF v.k \in {"null", "undefined"} THEN ""
  ELSE IF v.k = "boolean" THEN (IF v.s = "true" THEN "true" ELSE "false")
  ELSE IF v.k = "File" THEN "[object File]"
  ELSE v.s

HasPrefixField(fieldList, name) ==
  \E i \in DOMAIN fieldList : StartsWith(name, fieldList[i].name \o "_")

\* fieldList.find(f => name.startsWith(`${f.name}_`))
FirstPrefixField(fieldList, name) ==
  LET hits == {i \in DOMAIN fieldList : StartsWith(name, fieldList[i].name \o "_")}
  IN fieldList[CHOOSE i \in hits : \A j \in hits : i <= j]

\* lines 308-325
fieldExists(name, fields, sel, vals) ==
  LET allFields == getAllFields(fields, sel)
  IN \E i \in DOMAIN allFields :
       LET f == allFields[i]
       IN IF StartsWith(name, f.name \o "_") /\ HasPrefixField(fields, name)
          THEN LET parentField     == FirstPrefixField(fields, name)
                   nestedFieldName == RemovePrefix(name, parentField.name \o "_")
                   selectedValue   ==
                     IF Selected(sel, parentField.name) # ""
                     THEN Selected(sel, parentField.name)
                     ELSE KeyText(Get(vals, parentField.name))
                   conditionalFields == Branch(parentField, selectedValue)
               IN \E j \in DOMAIN conditionalFields :
                    conditionalFields[j].name = nestedFieldName
          ELSE f.name = name

\* lines 328-330: allFields.find(f => f.name === name || name.startsWith(`${f.name}_`))
FieldFor(name, allFields) ==
  LET hits == {i \in DOMAIN allFields :
                 allFields[i].name = name \/ StartsWith(name, allFields[i].name \o "_")}
  IN allFields[CHOOSE i \in hits : \A j \in hits : i <= j]

\* lines 327-360 for one entry of values: the answers and files it adds
EntryOutput(entry, fields, sel, vals) ==
  LET allFields == getAllFields(fields, sel)
      none == [answers |-> <<>>, files |-> <<>>]
  IN IF ~fieldExists(entry.name, fields, sel, vals) THEN none
     ELSE LET field == FieldFor(entry.name, allFields)
          IN IF field.type = "file"
             THEN IF entry.value.k = "File"
                  THEN [ answers |-> << [name |-> entry.name, value |-> entry.value.s] >>,
                         files   |-> << [name |-> entry.name, value |-> entry.value] >> ]
                  ELSE IF field.required
                  THEN [ answers |-> << [name |-> entry.name, value |-> ""] >>,
                         files   |-> <<>> ]
                  ELSE none
             ELSE [ answers |-> << [name |-> entry.name,
                                    value |-> StringValue(entry.value)] >>,
                    files   |-> <<>> ]

\* line 300
hasFileFields(fields, sel) ==
  LET allFields == getAllFields(fields, sel)
  IN \E i \in DOMAIN allFields : allFields[i].type = "file"

\* lines 296-378: the request handleSubmit sends for these values
SubmitPayload(fields, sel, vals) ==
  LET outs == [i \in DOMAIN vals |-> EntryOutput(vals[i], fields, sel, vals)]
      answers == Flatten([i \in DOMAIN outs |-> outs[i].answers])
      files   == Flatten([i \in DOMAIN outs |-> outs[i].files])
  IN IF hasFileFields(fields, sel)
     THEN [kind |-> "multipart", answers |-> answers, files |-> files]
     ELSE [kind |-> "json", answers |-> answers, files |-> <<>>]

(***************************************************************************)
(* The schemas of the model, as the editor produces them: names come from  *)
(* labels through generateFieldName.                                       *)
(***************************************************************************)
Options == << "M", "N" >>

\* the conditionalFields objects of a field with the options M and N
CondX      == << [name |-> "M", value |-> << NestedField("X", "text", FALSE) >>] >>
CondB      == << [name |-> "M", value |-> << NestedField("B", "text", TRUE) >>] >>
CondBX     == << [name |-> "M", value |-> << NestedField("B X", "text", FALSE) >>] >>
CondBoth   == << [name |-> "M", value |-> << NestedField("X", "checkbox", TRUE),
                                            NestedField("B", "number", FALSE) >>],
                 [name |-> "N", value |-> << NestedField("X", "text", FALSE) >>] >>

\* the first field: a radio or select, or a text field that was one before
\* its type was changed in the editor (FieldEditor.handleChange keeps
\* options and conditionalFields)
ParentFields ==
  { TopField("A", "select", FALSE, Options, c, NoValidation) :
      c \in { <<>>, CondX, CondB, CondBX, CondBoth } }
  \cup { TopField("A", "radio", FALSE, Options, c, NoValidation) :
           c \in { CondX, CondBoth } }
  \cup { TopField("A", "text", FALSE, Options, CondBX, NoValidation),
         TopField("Contact Method", "radio", TRUE, << "Email", "Phone" >>,
                  << [name  |-> "Email",
                      value |-> << NestedField("Email Address", "email", TRUE) >>] >>,
                  NoValidation) }

\* the second field, whose label extends the label of the first: a text or a
\* checkbox after every first field, a file input or a second select after
\* some of them
SiblingFields(parent) ==
  { TopField("A B", "text", FALSE, <<>>, <<>>, NoValidation),
    TopField("A B", "checkbox", TRUE, <<>>, <<>>, NoValidation) }
  \cup (IF parent.type = "select" /\ parent.conditionalFields \in { <<>>, CondB }
        THEN { TopField("A B", "file", FALSE, <<>>, <<>>, NoValidation) } ELSE {})
  \cup (IF parent.conditionalFields \in { <<>>, CondBX }
        THEN { TopField("A B", "select", FALSE, Options, CondX, NoValidation) } ELSE {})

\* one field of every kind, required or not, with the constraints of its kind
SingleFields ==
  { TopField("Name", t, r, <<>>, <<>>, v) :
      t \in {"text", "textarea"}, r \in BOOLEAN,
      v \in { NoValidation, [minLength |-> 2, maxLength |-> 3],
              [regex |-> LowerWordPattern], [minLength |-> 2, regex |-> BrokenPattern] } }
  \cup { TopField("Age", "number", r, <<>>, <<>>, v) :
           r \in BOOLEAN, v \in { NoValidation, [min |-> 18, max |-> 65] } }
  \cup { TopField("Mail", "email", r, <<>>, <<>>, v) :
           r \in BOOLEAN, v \in { NoValidation, [minLength |-> 6] } }
  \cup { TopField("Item", t, r, <<>>, <<>>, NoValidation) :
           t \in {"date", "checkbox", "file", "tel"}, r \in BOOLEAN }
  \cup { TopField("Pick", t, r, o, <<>>, NoValidation) :
           t \in {"radio", "select"}, r \in BOOLEAN, o \in { Options, <<>> } }

Schemas ==
  { << f >> : f \in SingleFields \cup ParentFields }
  \cup UNION { { << p, q >> : q \in SiblingFields(p) } : p \in ParentFields }

NoForm == [fields |-> <<>>, isActive |-> FALSE, null |-> TRUE]
FormOf(fields) == [fields |-> fields, isActive |-> TRUE, null |-> FALSE]

\* the answers of formsAPI.getById: a form, active or not, or a failure
ServerForms ==
  { [status |-> "ok", form |-> FormOf(fields)] : fields \in Schemas }
  \cup { [status |-> "ok",
          form |-> [FormOf(<< TopField("Name", "text", TRUE, <<>>, <<>>, NoValidation) >>)
                      EXCEPT !.isActive = FALSE]],
         [status |-> "notFound", form |-> NoForm],
         [status |-> "failed", form |-> NoForm] }

\* what the user can type or pick in a control of a kind
TextInputs(type) ==
  CASE type = "email"  -> {"", "M", "a@b.cd"}
    [] type = "number" -> {"", "17", "30"}
    [] type = "date"   -> {"", "2024-01-31"}
    [] OTHER           -> {"", "M", "ada"}

FileNames == {"cv.pdf"}

(***************************************************************************)
(* The fill-out page FormPage.                                             *)
(***************************************************************************)
EmptyMap == [n \in {} |-> ""]

NoSelection == [name |-> "", from |-> "", to |-> ""]

\* no request was sent by the step just taken
NoPayload == [kind |-> "none", answers |-> <<>>, files |-> <<>>]

TransportMessage == "Error submitting form. Please try again."

\* lines 700-774: the form is rendered only past the loading, error and
\* success views
FormShown == ~loading /\ error = "" /\ ~form.null /\ ~submitSuccess

\* lines 806-817 and 894: the controls on the page, each under the name it
\* is rendered with
RenderedFields(fields, sel, vals) ==
  Flatten([i \in DOMAIN fields |->
    LET field == fields[i]
        selectedValue == IF Selected(sel, field.name) # ""
                         THEN Selected(sel, field.name)
                         ELSE KeyText(Get(vals, field.name))
        conditionalFields ==
          IF Selectable(field) /\ selectedValue # "" /\ HasBranch(field, selectedValue)
          THEN Branch(field, selectedValue) ELSE <<>>
    IN << field >> \o
       [j \in DOMAIN conditionalFields |->
          [conditionalFields[j] EXCEPT !.name = field.name \o "_" \o conditionalFields[j].name]]])

Controls == RenderedFields(form.fields, selectedValues, values)

\* useMemo, lines 260-264
validationSchema == generateValidationSchema(form.fields, selectedValues)

\* a page that keeps the expanded list in place of the loaded fields
FormAfterExpandFlattened(sel) == [form EXCEPT !.fields = getAllFields(form.fields, sel)]

\* the schema object after a render or a submit has called getAllFields on it
FormAfterExpand(sel) == [form EXCEPT !.fields = FieldsAfterExpand(form.fields, sel)]

\* Formik's setFieldValue with validateOnChange: the value, then the errors
\* of the whole form
SetAndValidate(newValues) ==
  /\ values' = newValues
  /\ errors' = ValidateForm(validationSchema, newValues)

\* the requests in flight: those whose Formik is still mounted, and those
\* whose Formik has been unmounted
NoRequests == [live |-> 0, orphaned |-> 0]

\* the submission requests that have been sent and have not settled yet
InFlight == requests.live + requests.orphaned

\* the requests and timers of a Formik instance that has been unmounted
Orphaned(rs) == [rs EXCEPT !.live = 0, !.orphaned = rs.orphaned + rs.live]
OrphanedTimers(ts) == {[t EXCEPT !.live = FALSE] : t \in ts}

Init ==
  /\ serverForm \in ServerForms
  /\ form = NoForm
  /\ loading = TRUE
  /\ error = ""
  /\ submitSuccess = FALSE
  /\ selectedValues = EmptyMap
  /\ values = <<>>
  /\ errors = EmptyMap
  /\ isSubmitting = FALSE
  /\ timers = {}
  /\ requests = NoRequests
  /\ sent = NoPayload
  /\ lastSelection = NoSelection
  /\ page = "fill"
  /\ stored = <<>>
  /\ formFields = <<>>
  /\ fieldsWithStableIds = <<>>
  /\ editors = <<>>
  /\ saved = [kind |-> "none", fields |-> <<>>]
  /\ notice = ""
  /\ edits = 0

\* fetchForm, lines 238-257, when the form is active: the page renders the
\* form and Formik mounts with the initial values
FetchFormOk ==
  /\ UNCHANGED editorVars
  /\ loading
  /\ serverForm.status = "ok" /\ serverForm.form.isActive
  /\ form' = [serverForm.form EXCEPT
                !.fields = FieldsAfterExpand(serverForm.form.fields, selectedValues)]
  /\ loading' = FALSE
  /\ values' = getInitialValues(serverForm.form.fields, selectedValues)
  /\ sent' = NoPayload
  /\ UNCHANGED << serverForm, error, submitSuccess, selectedValues, errors,
                  isSubmitting, timers, requests, lastSelection >>

\* fetchForm when the form is not active or the request fails
FetchFormFail ==
  /\ UNCHANGED editorVars
  /\ loading
  /\ ~(serverForm.status = "ok" /\ serverForm.form.isActive)
  /\ error' = CASE serverForm.status = "ok"       -> "This form is not active"
                [] serverForm.status = "notFound" -> "Form not found"
                [] OTHER -> "Failed to load form. Please try again later."
  /\ loading' = FALSE
  /\ sent' = NoPayload
  /\ UNCHANGED << serverForm, form, submitSuccess, selectedValues, values, errors,
                  isSubmitting, timers, requests, lastSelection >>

\* Formik's handleChange on a text, textarea, email, date or default input
TypeText ==
  /\ UNCHANGED editorVars
  /\ FormShown
  /\ LET controls == Controls
     IN \E c \in DOMAIN controls :
          /\ controls[c].type \notin {"select", "radio", "checkbox", "number", "file"}
          /\ \E text \in TextInputs(controls[c].type) :
               /\ Get(values, controls[c].name) # Str(text)
               /\ SetAndValidate(Put(values, controls[c].name, Str(text)))
  /\ sent' = NoPayload
  /\ UNCHANGED << serverForm, form, loading, error, submitSuccess, selectedValues,
                  isSubmitting, timers, requests, lastSelection >>

\* lines 586-592: the value a number input stores, undefined for the empty text
NumberInputValue(text) == IF text = "" THEN Undefined ELSE Str(text)

\* the onChange of a number input, lines 586-592
TypeNumber ==
  /\ UNCHANGED editorVars
  /\ FormShown
  /\ LET controls == Controls
     IN \E c \in DOMAIN controls :
          /\ controls[c].type = "number"
          /\ \E text \in TextInputs("number") :
               LET value == NumberInputValue(text)
               IN /\ Get(values, controls[c].name) # value
                  /\ SetAndValidate(Put(values, controls[c].name, value))
  /\ sent' = NoPayload
  /\ UNCHANGED << serverForm, form, loading, error, submitSuccess, selectedValues,
                  isSubmitting, timers, requests, lastSelection >>

\* Formik's handleChange on a checkbox
ToggleCheckbox ==
  /\ UNCHANGED editorVars
  /\ FormShown
  /\ LET controls == Controls
     IN \E c \in DOMAIN controls :
          /\ controls[c].type = "checkbox"
          /\ SetAndValidate(Put(values, controls[c].name,
                                Bool(~Truthy(Get(values, controls[c].name)))))
  /\ sent' = NoPayload
  /\ UNCHANGED << serverForm, form, loading, error, submitSuccess, selectedValues,
                  isSubmitting, timers, requests, lastSelection >>

\* the onChange of a file input, lines 622-645: the value without
\* validation, and a validateField call 100 ms later
ChooseFile ==
  /\ UNCHANGED editorVars
  /\ FormShown
  /\ LET controls == Controls
     IN \E c \in DOMAIN controls :
          /\ controls[c].type = "file"
          /\ Cardinality(timers) < MaxTimers
          /\ \E value \in {FileOf(n) : n \in FileNames} \cup {Undefined} :
               /\ Get(values, controls[c].name) # value
               /\ values' = Put(values, controls[c].name, value)
          /\ timers' = timers \cup {[name |-> controls[c].name, live |-> TRUE,
                                      sel |-> selectedValues]}
  /\ sent' = NoPayload
  /\ UNCHANGED << serverForm, form, loading, error, submitSuccess, selectedValues,
                  errors, isSubmitting, requests, lastSelection >>

\* Formik's validateField(name): the error of that name is set or removed
FieldErrorSet(errs, name, message) ==
  [n \in (IF message = Valid THEN DOMAIN errs \ {name} ELSE DOMAIN errs \cup {name}) |->
     IF n = name THEN message ELSE errs[n]]

\* the validationSchema prop of the Formik whose render scheduled the call:
\* the closure of lines 631-633 keeps that Formik's validateField
RulesOf(t) == generateValidationSchema(form.fields, t.sel)

\* the timeout of lines 631-633 and 640-642 fires: validateField runs against
\* the rule set of the Formik that scheduled it; on a Formik that is no longer
\* mounted the outcome changes nothing on the page
FileTimer ==
  /\ UNCHANGED editorVars
  /\ \E t \in timers :
       /\ timers' = timers \ {t}
       /\ IF t.live /\ FormShown
          THEN errors' = FieldErrorSet(errors, t.name,
                                       Outcome(RulesOf(t), values, t.name))
          ELSE errors' = errors
  /\ sent' = NoPayload
  /\ UNCHANGED << serverForm, form, loading, error, submitSuccess, selectedValues,
                  values, isSubmitting, requests, lastSelection >>

\* the onBlur of a file input, lines 646-649
BlurFile ==
  /\ UNCHANGED editorVars
  /\ FormShown
  /\ LET controls == Controls
     IN \E c \in DOMAIN controls : controls[c].type = "file"
  /\ errors' = ValidateForm(validationSchema, values)
  /\ sent' = NoPayload
  /\ UNCHANGED << serverForm, form, loading, error, submitSuccess, selectedValues,
                  values, isSubmitting, timers, requests, lastSelection >>

\* the value the handlers of lines 449-458 and 463-473 put under a nested name
ClearedValue(nestedField) ==
  IF nestedField.type = "checkbox" THEN Bool(FALSE)
  ELSE IF nestedField.type = "number" THEN Undefined
  ELSE Str("")

ClearEntries(field, nestedFields) ==
  [j \in DOMAIN nestedFields |->
     [name  |-> field.name \o "_" \o nestedFields[j].name,
      value |-> ClearedValue(nestedFields[j])]]

\* lines 436-475 on a Formik that stays mounted: handleChange, then the
\* nested names of the chosen option, then those of every other option
ValuesAfterSelect(vals, field, option) ==
  LET chosen == IF HasBranch(field, option)
                THEN ClearEntries(field, Branch(field, option)) ELSE <<>>
      others == Flatten([b \in DOMAIN field.conditionalFields |->
                  IF field.conditionalFields[b].name # option
                  THEN ClearEntries(field, field.conditionalFields[b].value)
                  ELSE <<>>])
  IN PutAll(Put(vals, field.name, Str(option)), chosen \o others)

\* setSelectedValues({...selectedValues, [field.name]: option})
SelectionAfter(sel, name, option) ==
  [n \in DOMAIN sel \cup {name} |-> IF n = name THEN option ELSE sel[n]]

\* the onChange of a select (lines 435-476) or radio (lines 502-549).  The
\* Formik element is keyed by JSON.stringify(selectedValues): when the
\* selection state changes, the mounted Formik is replaced by a new one that
\* starts from the initial values of the new selection state
SelectOption ==
  /\ UNCHANGED editorVars
  /\ FormShown
  /\ \E c \in DOMAIN Controls :
       LET field == Controls[c]
           choices == {field.options[i] : i \in DOMAIN field.options}
                      \cup (IF field.type = "select" THEN {""} ELSE {})
       IN /\ Selectable(field)
          /\ \E option \in choices :
               LET newSelectedValues == SelectionAfter(selectedValues, field.name, option)
                   remount == newSelectedValues # selectedValues
               IN /\ Get(values, field.name) # Str(option)
                  /\ selectedValues' = newSelectedValues
                  /\ lastSelection' = [ name |-> field.name,
                                        from |-> Selected(selectedValues, field.name),
                                        to |-> option ]
                  /\ form' = FormAfterExpand(newSelectedValues)
                  /\ IF remount
                     THEN /\ values' = getInitialValues(form.fields, newSelectedValues)
                          /\ errors' = EmptyMap
                          /\ isSubmitting' = FALSE
                          /\ timers' = OrphanedTimers(timers)
                          /\ requests' = Orphaned(requests)
                     ELSE /\ SetAndValidate(ValuesAfterSelect(values, field, option))
                          /\ UNCHANGED << isSubmitting, timers, requests >>
  /\ sent' = NoPayload
  /\ UNCHANGED << serverForm, loading, error, submitSuccess >>

\* Formik's submitForm when validation fails: the errors are set, onSubmit
\* is not called
SubmitRejected ==
  /\ UNCHANGED editorVars
  /\ FormShown
  /\ ~isSubmitting
  /\ LET combinedErrors == ValidateForm(validationSchema, values)
     IN /\ combinedErrors # EmptyMap
        /\ errors' = combinedErrors
  /\ isSubmitting' = FALSE
  /\ sent' = NoPayload
  /\ UNCHANGED << serverForm, form, loading, error, submitSuccess, selectedValues,
                  values, timers, requests, lastSelection >>


\* Formik's submitForm when validation passes, and handleSubmit (lines
\* 292-378) up to the request
SubmitSent ==
  /\ UNCHANGED editorVars
  /\ FormShown
  /\ ~isSubmitting
  /\ InFlight < MaxRequests
  /\ ValidateForm(validationSchema, values) = EmptyMap
  /\ errors' = EmptyMap
  /\ isSubmitting' = TRUE
  /\ error' = ""
  /\ form' = FormAfterExpand(selectedValues)
  /\ requests' = [requests EXCEPT !.live = @ + 1]
  /\ sent' = SubmitPayload(form.fields, selectedValues, values)
  /\ UNCHANGED << serverForm, loading, submitSuccess, selectedValues, values, timers,
                  lastSelection >>

\* a request in flight settles: one sent by the mounted Formik ("live") or
\* one sent by a Formik that is gone ("orphaned")
Settled(rs, which) == [rs EXCEPT ![which] = @ - 1]

\* lines 711-770: the error view and the success view are rendered in place
\* of the form, so the Formik element is unmounted and its state is gone
FormikUnmounted ==
  /\ values' = <<>>
  /\ errors' = EmptyMap
  /\ isSubmitting' = FALSE
  /\ timers' = OrphanedTimers(timers)

\* setSubmitting(false) of line 408, on the Formik that sent the request
SubmittingAfter(which) == IF which = "live" THEN FALSE ELSE isSubmitting

\* the fields the server's message can name
ServerErrorFields(fields) == {Len(fields)}

\* the request succeeds: lines 380-383 and 407-409; the success view replaces
\* the form
SubmitOk ==
  /\ UNCHANGED editorVars
  /\ \E which \in {"live", "orphaned"} :
       /\ requests[which] > 0
       /\ requests' = Orphaned(Settled(requests, which))
  /\ submitSuccess' = TRUE
  /\ FormikUnmounted
  /\ sent' = NoPayload
  /\ UNCHANGED << serverForm, form, loading, error, selectedValues, lastSelection >>

\* the request fails without a list of field errors: lines 401-409; the
\* error view of lines 711-740 replaces the form
SubmitTransportFail ==
  /\ UNCHANGED editorVars
  /\ \E which \in {"live", "orphaned"} :
       /\ requests[which] > 0
       /\ requests' = Orphaned(Settled(requests, which))
  /\ error' = TransportMessage
  /\ FormikUnmounted
  /\ sent' = NoPayload
  /\ UNCHANGED << serverForm, form, loading, submitSuccess, selectedValues,
                  lastSelection >>

Contains(s, sub) ==
  \E i \in 1..(Len(s) - Len(sub) + 1) : SubSeq(s, i, i + Len(sub) - 1) = sub

ToLowerCase(s) == MapChars(s, 1, "lower")

\* lines 391-395: the first field whose label or name occurs in the message
MatchingFields(fields, errorStr) ==
  {k \in DOMAIN fields :
     \/ Contains(ToLowerCase(errorStr), ToLowerCase(fields[k].label))
     \/ Contains(ToLowerCase(errorStr), ToLowerCase(fields[k].name))}

\* the request fails with a list of field errors, here one message that
\* names a field by its label: lines 385-400 and 407-409
SubmitFieldErrors ==
  /\ UNCHANGED editorVars
  /\ \E which \in {"live", "orphaned"}, j \in ServerErrorFields(form.fields) :
       LET errorStr == form.fields[j].label \o " is not accepted"
           hits == MatchingFields(form.fields, errorStr)
           matchingField == form.fields[CHOOSE k \in hits : \A l \in hits : k <= l]
       IN /\ requests[which] > 0
          /\ requests' = Settled(requests, which)
          /\ isSubmitting' = SubmittingAfter(which)
          /\ errors' = IF which = "live" /\ hits # {}
                       THEN FieldErrorSet(errors, matchingField.name, errorStr)
                       ELSE errors
  /\ sent' = NoPayload
  /\ UNCHANGED << serverForm, form, loading, error, submitSuccess, selectedValues,
                  values, timers, lastSelection >>

Next ==
  \/ FetchFormOk
  \/ FetchFormFail
  \/ TypeText
  \/ TypeNumber
  \/ ToggleCheckbox
  \/ ChooseFile
  \/ FileTimer
  \/ BlurFile
  \/ SelectOption
  \/ SubmitRejected
  \/ SubmitSent
  \/ SubmitOk
  \/ SubmitTransportFail
  \/ SubmitFieldErrors

Spec == Init /\ [][Next]_vars

(***************************************************************************)
(* Properties of the expander, the serializer and the validator, stated on *)
(* the schema, the selection state and the values of the page.             *)
(***************************************************************************)
\* the effective field list of the page
EffectiveFields == getAllFields(form.fields, selectedValues)

\* the qualified names of the nested fields of one branch of a field
BranchNames(field, option) ==
  {NestedCopy(field, Branch(field, option)[j]).copy.name :
     j \in DOMAIN Branch(field, option)}

AnswerNames(payload) == {payload.answers[a].name : a \in DOMAIN payload.answers}

\* C1 (branch isolation): after the selection of a top-level radio or select
\* field has changed from an option to a different one, no qualified name that
\* only the nested fields of the former option define is in the effective
\* field list, nor is it the name of an answer of the request.
C1_BranchIsolation ==
  (~form.null /\ lastSelection.from # "" /\ lastSelection.to # lastSelection.from) =>
    \A i \in DOMAIN form.fields :
      (form.fields[i].name = lastSelection.name /\ Selectable(form.fields[i])) =>
        LET left == BranchNames(form.fields[i], lastSelection.from)
                    \ BranchNames(form.fields[i], lastSelection.to)
        IN /\ left \cap NameSet(EffectiveFields) = {}
           /\ left \cap AnswerNames(sent) = {}

\* C2 (answer serialization is complete and kind-correct): a request holds,
\* for every effective field whose name is a key of the values, exactly one
\* answer under that name; its value is the string form of the entered value
\* for a field that is no file input, and for a file input that holds a File
\* it is the file's name, the File being appended under the same name.  A
\* file input without a File is left aside.
C2_AnswersCompleteKindCorrect ==
  (sent.kind # "none") =>
    \A k \in DOMAIN EffectiveFields :
      LET field == EffectiveFields[k]
          value == Get(values, field.name)
          hits  == {a \in DOMAIN sent.answers : sent.answers[a].name = field.name}
      IN HasKey(values, field.name) =>
           IF field.type = "file"
           THEN (value.k = "File") =>
                  /\ Cardinality(hits) = 1
                  /\ \A a \in hits : sent.answers[a].value = value.s
                  /\ \E f \in DOMAIN sent.files :
                       sent.files[f] = [name |-> field.name, value |-> value]
           ELSE /\ Cardinality(hits) = 1
                /\ \A a \in hits :
                     sent.answers[a].value =
                       (IF value.k \in {"null", "undefined"} THEN "" ELSE value.s)

\* C3 (stale values are dropped): every answer and every file of a request
\* is under the name of a field of the effective field list of the current
\* selection state.
C3_StaleValuesDropped ==
  (sent.kind # "none") =>
    /\ AnswerNames(sent) \subseteq NameSet(EffectiveFields)
    /\ \A f \in DOMAIN sent.files : sent.files[f].name \in NameSet(EffectiveFields)

\* C4 (qualified names are collision-free): the names of the effective field
\* list are pairwise distinct, for every schema and selection state.
C4_QualifiedNamesCollisionFree ==
  (~form.null) =>
    \A i, j \in DOMAIN EffectiveFields :
      (EffectiveFields[i].name = EffectiveFields[j].name) => i = j

\* C5 (round trip of qualification): for every radio or select field of the
\* schema and every nested field of its branches, splitting the qualified
\* name the way handleSubmit does (the first top-level field whose name and
\* "_" is a prefix, then the rest) gives back the parent and the local name.
C5_QualificationRoundTrip ==
  (~form.null) =>
    \A i \in DOMAIN form.fields :
      Selectable(form.fields[i]) =>
        \A b \in DOMAIN form.fields[i].conditionalFields :
          \A j \in DOMAIN form.fields[i].conditionalFields[b].value :
            LET nestedField == form.fields[i].conditionalFields[b].value[j]
                qualified   == NestedCopy(form.fields[i], nestedField).copy.name
                parentField == FirstPrefixField(form.fields, qualified)
            IN /\ parentField.name = form.fields[i].name
               /\ RemovePrefix(qualified, parentField.name \o "_") = nestedField.name

\* the top-level radio and select fields whose selected value is a branch key
ActiveParents(fields, sel) ==
  {i \in DOMAIN fields :
     Selectable(fields[i]) /\ HasBranch(fields[i], Selected(sel, fields[i].name))}

\* C6 (content of the effective field list): the list holds every top-level
\* field and, for each top-level radio or select whose selected value is a
\* key of its conditionalFields, the nested fields of that branch under the
\* names parent_nested, and nothing else; another selected value, or none,
\* adds nothing.  With contact_method = Email the names are contact_method
\* and contact_method_email_address, otherwise contact_method alone.
C6_EffectiveListContent ==
  (~form.null) =>
    LET fields == form.fields
        active == ActiveParents(fields, selectedValues)
        nested == UNION {
          { [Branch(fields[i], selectedValues[fields[i].name])[j] EXCEPT
               !.name = fields[i].name \o "_" \o @] :
              j \in DOMAIN Branch(fields[i], selectedValues[fields[i].name]) } :
          i \in active }
        places == UNION {
          { << i, j >> : j \in DOMAIN Branch(fields[i], selectedValues[fields[i].name]) } :
          i \in active }
    IN /\ {EffectiveFields[k] : k \in DOMAIN EffectiveFields}
            = {fields[i] : i \in DOMAIN fields} \cup nested
       /\ Len(EffectiveFields) = Len(fields) + Cardinality(places)
       /\ (FieldNames(fields) = << "contact_method" >>) =>
            NameSet(EffectiveFields) =
              IF Selected(selectedValues, "contact_method") = "Email"
              THEN {"contact_method", "contact_method_email_address"}
              ELSE {"contact_method"}

\* the contact form with Email selected: both fields are in the list
C6_Witness ==
  /\ ~form.null
  /\ FieldNames(form.fields) = << "contact_method" >>
  /\ Selected(selectedValues, "contact_method") = "Email"
  /\ FieldNames(EffectiveFields) = << "contact_method", "contact_method_email_address" >>

\* C7 (ordering of the effective field list): the nested fields of an active
\* branch come right after their parent and before the next top-level field,
\* and the answers of a request follow that order.
C7_ParentChildrenOrder ==
  (~form.null) =>
    LET expected == Flatten([i \in DOMAIN form.fields |->
                       << form.fields[i] >> \o ActiveCopies(form.fields[i], selectedValues)])
    IN /\ EffectiveFields = expected
       /\ (sent.kind # "none") =>
            [a \in DOMAIN sent.answers |-> sent.answers[a].name]
              = SelectSeq(FieldNames(expected), LAMBDA n : n \in AnswerNames(sent))

\* C8 (determinism and idempotence of expansion): whatever calls of
\* getAllFields the page has made, the schema is the one that was loaded, and
\* the list computed from it is the list computed from the loaded schema: no
\* nested name is prefixed a second time.
C8_ExpansionIdempotent ==
  (~form.null) =>
    /\ form = serverForm.form
    /\ getAllFields(form.fields, selectedValues)
         = getAllFields(serverForm.form.fields, selectedValues)
    /\ \A k \in DOMAIN EffectiveFields :
         k > Len(form.fields) =>
           \E i \in ActiveParents(serverForm.form.fields, selectedValues) :
             EffectiveFields[k].name \in
               BranchNames(serverForm.form.fields[i], selectedValues[form.fields[i].name])

\* a request was sent while a branch was active: getAllFields has run for
\* the render, the rules, the initial values and the submission
C8_Witness ==
  /\ ~form.null
  /\ InFlight > 0
  /\ sent.kind # "none"
  /\ Len(EffectiveFields) > Len(form.fields)

\* a value that is the empty string or absent
IsEmptyValue(v) == v = Str("") \/ v.k \in {"undefined", "null"}

\* C9 (optional-empty exemption): an effective field whose value is empty
\* validates as Valid when it is optional, whatever constraints it declares,
\* and as Invalid when it is required.
C9_OptionalEmptyExemption ==
  FormShown =>
    \A k \in DOMAIN EffectiveFields :
      LET field == EffectiveFields[k]
      IN IsEmptyValue(Get(values, field.name)) =>
           ((Outcome(validationSchema, values, field.name) = Valid) <=> ~field.required)

\* the names of the effective fields that are not Valid under the rule set
InvalidNames ==
  {EffectiveFields[k].name : k \in
     {j \in DOMAIN EffectiveFields :
        YupValidate(Get(validationSchema, EffectiveFields[j].name),
                    PrepareForValidation(Get(values, EffectiveFields[j].name))) # Valid}}

\* C10 (validation gates submission): a request is sent only from a state in
\* which every effective field is Valid under the rule set of the current
\* selection state; a submission that fails validation sends nothing, puts an
\* error on the failing fields and only on them, keeps the values and leaves
\* the form shown and not submitting.
C10_ValidationGatesSubmission ==
  /\ []((sent.kind # "none") => InvalidNames = {})
  /\ [][ (FormShown /\ InvalidNames # {}) =>
           (sent' = NoPayload /\ InFlight' <= InFlight) ]_vars
  /\ [][ SubmitRejected =>
           /\ DOMAIN errors' = InvalidNames
           /\ values' = values
           /\ FormShown' /\ ~isSubmitting' ]_vars

\* a request sent for a form with a required field, which holds a value
C10_Witness ==
  /\ sent.kind # "none"
  /\ \E k \in DOMAIN EffectiveFields :
       /\ EffectiveFields[k].required
       /\ Truthy(Get(values, EffectiveFields[k].name))

\* C11: no second submission request is started while one is pending, also
\* when the user changes a radio or select selection in the meantime: at
\* most one submission request is in flight at any time.
C11_AtMostOneInFlight ==
  /\ InFlight <= 1
  /\ (sent.kind # "none") => InFlight = 1

\* C12: whenever a validation is evaluated, and so when the validateField
\* call scheduled by a file input runs, the rule set it is evaluated against
\* is the one generated from the current selection state.
C12_NoStaleRuleValidation ==
  [][ \A t \in timers :
        (timers' = timers \ {t}) => RulesOf(t) = validationSchema ]_vars

\* C13: when a submission fails without a list of field errors, the error
\* is shown and the form is still displayed with the values the user typed.
C13_TransportFailureRetryable ==
  [][ (error = "" /\ error' = TransportMessage) =>
        /\ values' = values
        /\ ~loading' /\ ~form'.null /\ ~submitSuccess' ]_vars

(***************************************************************************)
(* The form editor: NewForm and EditForm (src/pages/admin/forms/[id].js)   *)
(* with DraggableFieldList, FieldEditor and NestedFieldsManager.  A field  *)
(* is held with its label, name, type, options, conditionalFields, _id and *)
(* _dragId; "" stands for an absent _id or _dragId.                        *)
(***************************************************************************)
MaxFields == 2     \* fields in the list of the editor
MaxNested == 1     \* nested fields under one option
MaxEdits == 6      \* operations of the administrator in one visit of the page

\* what the administrator types or picks
EditorLabels == {"A", "B"}
EditorTypes  == {"text", "select"}
OptionLists  == {<<>>, <<"M">>, <<"N">>}
NestedLabels == {"X", "Y"}
Titles       == {"", "T"}

EditorField(label, name, type, options, cond, id, dragId, order) ==
  [ label |-> label, name |-> name, type |-> type, options |-> options,
    conditionalFields |-> cond, _id |-> id, _dragId |-> dragId, order |-> order ]

\* a field of a document of the forms service, saved from this editor: its
\* name follows its label
StoredField(label, type, options, cond, id, dragId, order) ==
  EditorField(label, generateFieldName(label), type, options, cond, id, dragId, order)

\* NestedFieldsManager.newField after handleNewFieldChange
NewNestedField(label) ==
  [label |-> label, name |-> generateFieldName(label), type |-> "text"]

\* the documents the edit page is opened on: a text field, a select with a
\* nested field, a field that kept the token of handleAddField, two fields,
\* and two fields saved under one name
StoredForms ==
  { << StoredField("A", "text", <<>>, <<>>, "s1", "", 0) >>,
    << StoredField("A", "select", <<"M">>,
                   << [name |-> "M", value |-> << NewNestedField("X") >>] >>,
                   "s1", "", 0) >>,
    << StoredField("A", "text", <<>>, <<>>, "field_1", "field_1", 0) >>,
    << StoredField("A", "text", <<>>, <<>>, "s1", "", 0),
       StoredField("B", "text", <<>>, <<>>, "s2", "", 1) >>,
    << StoredField("A", "text", <<>>, <<>>, "s1", "", 0),
       StoredField("A", "text", <<>>, <<>>, "s2", "", 1) >> }

NoSave == [kind |-> "none", fields |-> <<>>]

\* DraggableFieldList.js lines 6-13; index counts from 0
generateStableId(field, index) ==
  IF field._dragId # "" THEN field._dragId
  ELSE IF field._id # "" THEN field._id
  ELSE IF field.name # "" THEN "field-" \o field.name
  ELSE "field-temp-" \o ToString(index)

\* the identity that ignores the token a field already has
PositionalId(field, index) == "field-temp-" \o ToString(index)

\* field._dragId || generateStableId(field, index), lines 38 and 54
KeptDragId(field, index) ==
  IF field._dragId # "" THEN field._dragId ELSE generateStableId(field, index)

\* EditForm.fetchForm, line 38
FetchedDragId(field, index) ==
  IF field._dragId # "" THEN field._dragId
  ELSE IF field.name # "" THEN field.name
  ELSE "field-" \o (IF field._id # "" THEN field._id ELSE ToString(index))

\* lines 18-21
WithStableIds(fs) ==
  [i \in DOMAIN fs |-> [fs[i] EXCEPT !._dragId = generateStableId(fs[i], i - 1)]]

RECURSIVE Join(_, _)
\* Array.prototype.join
Join(ss, sep) ==
  IF ss = <<>> THEN ""
  ELSE IF Len(ss) = 1 THEN ss[1]
  ELSE ss[1] \o sep \o Join(Tail(ss), sep)

\* the dependency of the useMemo, line 22
MemoKey(fs) ==
  Join([i \in DOMAIN fs |->
          (IF fs[i]._id # "" THEN fs[i]._id
           ELSE IF fs[i]._dragId # "" THEN fs[i]._dragId
           ELSE ToString(i - 1)) \o "-" \o fs[i].name], ",")

\* onFieldsChange = setFields, and the useMemo of lines 17-22 on the next
\* render: the list is recomputed only when the dependency has changed
SetFields(updatedFields) ==
  /\ formFields' = updatedFields
  /\ fieldsWithStableIds' =
       IF MemoKey(updatedFields) = MemoKey(formFields)
       THEN fieldsWithStableIds
       ELSE WithStableIds(updatedFields)

\* the useState initializers of FieldEditor, lines 249-265
NewEditor(field) ==
  [ isEditing |-> field.name = "",
    formData  |-> [ label |-> field.label, name |-> field.name,
                    type |-> field.type, options |-> field.options,
                    conditionalFields |-> field.conditionalFields ] ]

RemoveAt(s, i) == SubSeq(s, 1, i - 1) \o SubSeq(s, i + 1, Len(s))
InsertAt(s, i, x) == SubSeq(s, 1, i - 1) \o << x >> \o SubSeq(s, i, Len(s))
\* the two splice calls of lines 30-31
Moved(s, source, destination) == InsertAt(RemoveAt(s, source), destination, s[source])

Editing == page \in {"new", "edit"}

EditorInit ==
  /\ serverForm = [status |-> "notFound", form |-> NoForm]
  /\ form = NoForm
  /\ loading = TRUE
  /\ error = ""
  /\ submitSuccess = FALSE
  /\ selectedValues = EmptyMap
  /\ values = <<>>
  /\ errors = EmptyMap
  /\ isSubmitting = FALSE
  /\ timers = {}
  /\ requests = NoRequests
  /\ sent = NoPayload
  /\ lastSelection = NoSelection
  /\ \/ page = "new" /\ stored = <<>>
     \/ page = "loading" /\ stored \in StoredForms
  /\ formFields = <<>>
  /\ fieldsWithStableIds = <<>>
  /\ editors = <<>>
  /\ saved = NoSave
  /\ notice = ""
  /\ edits = 0

\* EditForm.fetchForm, lines 29-41: the list and its field editors mount
EditFetchForm ==
  /\ UNCHANGED pageVars
  /\ page = "loading"
  /\ LET fieldsWithDragIds ==
           [i \in DOMAIN stored |->
              [stored[i] EXCEPT !._dragId = FetchedDragId(stored[i], i - 1)]]
     IN /\ formFields' = fieldsWithDragIds
        /\ fieldsWithStableIds' = WithStableIds(fieldsWithDragIds)
        /\ editors' = [i \in DOMAIN stored |-> NewEditor(fieldsWithDragIds[i])]
  /\ page' = "edit"
  /\ saved' = NoSave
  /\ notice' = ""
  /\ UNCHANGED << stored, edits >>

\* the tokens of the fields on the page
TokensInUse ==
  {formFields[i]._id : i \in DOMAIN formFields}
  \cup {fieldsWithStableIds[i]._dragId : i \in DOMAIN fieldsWithStableIds}

\* lines 80-82: a token no field on the page carries; Date.now() and
\* Math.random() are stood for by the least number that is free
NewId ==
  LET free == {n \in 1..(MaxFields + 1) : ("field_" \o ToString(n)) \notin TokensInUse}
  IN "field_" \o ToString(CHOOSE n \in free : \A m \in free : n <= m)

\* DraggableFieldList.handleAddField, lines 79-97
handleAddField ==
  /\ UNCHANGED pageVars
  /\ Editing /\ edits < MaxEdits
  /\ edits' = edits + 1
  /\ Len(fieldsWithStableIds) < MaxFields
  /\ LET newField == EditorField("", "", "text", <<>>, <<>>, NewId, NewId,
                                 Len(fieldsWithStableIds))
     IN /\ SetFields(Append(fieldsWithStableIds, newField))
        /\ editors' = Append(editors, NewEditor(newField))
  /\ saved' = NoSave
  /\ notice' = ""
  /\ UNCHANGED << page, stored >>

\* handleFieldDelete, lines 63-77, when the confirm is accepted
handleFieldDelete ==
  /\ UNCHANGED pageVars
  /\ Editing /\ edits < MaxEdits
  /\ edits' = edits + 1
  /\ \E index \in DOMAIN fieldsWithStableIds :
       /\ LET kept == RemoveAt(fieldsWithStableIds, index)
          IN SetFields([i \in DOMAIN kept |-> [kept[i] EXCEPT !.order = i - 1]])
       /\ editors' = RemoveAt(editors, index)
  /\ saved' = NoSave
  /\ notice' = ""
  /\ UNCHANGED << page, stored >>

\* result.destination of a drop outside the list
NoDestination == 0

\* handleDragEnd, lines 24-44, on one drop; a field is draggable once it has
\* a name and a label (lines 170-177).  A drop without a destination or onto
\* the source index returns before onFieldsChange
DragEndAt(source, destination) ==
  /\ UNCHANGED pageVars
  /\ Editing /\ edits < MaxEdits
  /\ edits' = edits + 1
  /\ fieldsWithStableIds[source].name # ""
  /\ fieldsWithStableIds[source].label # ""
  /\ IF destination = NoDestination \/ source = destination
     THEN UNCHANGED << formFields, fieldsWithStableIds, editors >>
     ELSE /\ LET items == Moved(fieldsWithStableIds, source, destination)
                 updatedFields ==
                   [i \in DOMAIN items |->
                      [items[i] EXCEPT !.order = i - 1,
                                       !._dragId = KeptDragId(items[i], i - 1)]]
             IN SetFields(updatedFields)
          /\ editors' = Moved(editors, source, destination)
  /\ saved' = NoSave
  /\ notice' = ""
  /\ UNCHANGED << page, stored >>

handleDragEnd ==
  \E source \in DOMAIN fieldsWithStableIds,
     destination \in DOMAIN fieldsWithStableIds \cup {NoDestination} :
    DragEndAt(source, destination)

\* the Edit button, lines 624-630
EditClick ==
  /\ UNCHANGED pageVars
  /\ Editing /\ edits < MaxEdits
  /\ edits' = edits + 1
  /\ \E i \in DOMAIN editors :
       /\ ~editors[i].isEditing
       /\ editors' = [editors EXCEPT ![i].isEditing = TRUE]
  /\ saved' = NoSave
  /\ notice' = ""
  /\ UNCHANGED << page, stored, formFields, fieldsWithStableIds >>

\* the Cancel button, lines 576-582: formData keeps what was typed
CancelClick ==
  /\ UNCHANGED pageVars
  /\ Editing /\ edits < MaxEdits
  /\ edits' = edits + 1
  /\ \E i \in DOMAIN editors :
       /\ editors[i].isEditing
       /\ editors' = [editors EXCEPT ![i].isEditing = FALSE]
  /\ saved' = NoSave
  /\ notice' = ""
  /\ UNCHANGED << page, stored, formFields, fieldsWithStableIds >>

\* FieldEditor.handleChange on the label input, lines 290-303
LabelChanged(prev, newValue) ==
  IF newValue # "" /\ (prev.name = "" \/ prev.name = generateFieldName(prev.label))
  THEN [prev EXCEPT !.label = newValue, !.name = generateFieldName(newValue)]
  ELSE [prev EXCEPT !.label = newValue]

ChangeLabel ==
  /\ UNCHANGED pageVars
  /\ Editing /\ edits < MaxEdits
  /\ edits' = edits + 1
  /\ \E i \in DOMAIN editors, newValue \in EditorLabels :
       /\ editors[i].isEditing
       /\ newValue # editors[i].formData.label
       /\ editors' = [editors EXCEPT ![i].formData = LabelChanged(@, newValue)]
  /\ saved' = NoSave
  /\ notice' = ""
  /\ UNCHANGED << page, stored, formFields, fieldsWithStableIds >>

\* FieldEditor.handleChange on the type select, lines 290-312: the options
\* and the conditionalFields stay as they are
ChangeType ==
  /\ UNCHANGED pageVars
  /\ Editing /\ edits < MaxEdits
  /\ edits' = edits + 1
  /\ \E i \in DOMAIN editors, newValue \in EditorTypes :
       /\ editors[i].isEditing
       /\ newValue # editors[i].formData.type
       /\ editors' = [editors EXCEPT ![i].formData.type = newValue]
  /\ saved' = NoSave
  /\ notice' = ""
  /\ UNCHANGED << page, stored, formFields, fieldsWithStableIds >>

needsOptions(formData) == formData.type \in {"select", "radio"}

\* handleOptionsChange, lines 328-340; the textarea is rendered for radio
\* and select (line 438)
handleOptionsChange ==
  /\ UNCHANGED pageVars
  /\ Editing /\ edits < MaxEdits
  /\ edits' = edits + 1
  /\ \E i \in DOMAIN editors, options \in OptionLists :
       /\ editors[i].isEditing
       /\ needsOptions(editors[i].formData)
       /\ options # editors[i].formData.options
       /\ editors' = [editors EXCEPT ![i].formData.options = options]
  /\ saved' = NoSave
  /\ notice' = ""
  /\ UNCHANGED << page, stored, formFields, fieldsWithStableIds >>

\* the nested fields a NestedFieldsManager is given, line 485
NestedOf(formData, option) ==
  IF HasKey(formData.conditionalFields, option)
  THEN Get(formData.conditionalFields, option) ELSE <<>>

\* the onUpdate of lines 491-499
ConditionalUpdated(formData, option, updatedFields) ==
  [formData EXCEPT !.conditionalFields = Put(@, option, updatedFields)]

\* the managers are rendered for the options of a radio or select (lines
\* 438 and 480-484)
ManagedOptions(formData) ==
  IF needsOptions(formData)
  THEN {formData.options[k] : k \in DOMAIN formData.options} ELSE {}

\* NestedFieldsManager: handleNewFieldChange on the label (lines 68-79), then
\* handleAddField (lines 36-52)
NestedAddField ==
  /\ UNCHANGED pageVars
  /\ Editing /\ edits < MaxEdits
  /\ edits' = edits + 1
  /\ \E i \in DOMAIN editors, label \in NestedLabels :
       \E option \in ManagedOptions(editors[i].formData) :
         LET nestedFields == NestedOf(editors[i].formData, option)
             newField == NewNestedField(label)
         IN /\ editors[i].isEditing
            /\ Len(nestedFields) < MaxNested
            /\ newField.label # "" /\ newField.name # ""
            /\ editors' = [editors EXCEPT ![i].formData =
                 ConditionalUpdated(@, option, Append(nestedFields, newField))]
  /\ saved' = NoSave
  /\ notice' = ""
  /\ UNCHANGED << page, stored, formFields, fieldsWithStableIds >>

\* the label input of a nested field, part_000 lines 127-133
NestedLabelChanged(nf, newValue) ==
  IF nf.name = "" \/ nf.name = generateFieldName(nf.label)
  THEN [nf EXCEPT !.label = newValue, !.name = generateFieldName(newValue)]
  ELSE [nf EXCEPT !.label = newValue]

\* NestedFieldsManager: the label of a nested field is edited (lines
\* 127-133), handleUpdateField (lines 54-59)
NestedChangeLabel ==
  /\ UNCHANGED pageVars
  /\ Editing /\ edits < MaxEdits
  /\ edits' = edits + 1
  /\ \E i \in DOMAIN editors, newValue \in NestedLabels :
       \E option \in ManagedOptions(editors[i].formData) :
         LET nestedFields == NestedOf(editors[i].formData, option)
         IN \E idx \in DOMAIN nestedFields :
              /\ editors[i].isEditing
              /\ newValue # nestedFields[idx].label
              /\ editors' = [editors EXCEPT ![i].formData =
                   ConditionalUpdated(@, option,
                     [nestedFields EXCEPT ![idx] = NestedLabelChanged(@, newValue)])]
  /\ saved' = NoSave
  /\ notice' = ""
  /\ UNCHANGED << page, stored, formFields, fieldsWithStableIds >>

\* NestedFieldsManager.handleDeleteField, lines 61-66
NestedDeleteField ==
  /\ UNCHANGED pageVars
  /\ Editing /\ edits < MaxEdits
  /\ edits' = edits + 1
  /\ \E i \in DOMAIN editors :
       \E option \in ManagedOptions(editors[i].formData) :
         LET nestedFields == NestedOf(editors[i].formData, option)
         IN \E idx \in DOMAIN nestedFields :
              /\ editors[i].isEditing
              /\ editors' = [editors EXCEPT ![i].formData =
                   ConditionalUpdated(@, option, RemoveAt(nestedFields, idx))]
  /\ saved' = NoSave
  /\ notice' = ""
  /\ UNCHANGED << page, stored, formFields, fieldsWithStableIds >>

\* the test of handleSave without the options of a radio or select
SaveAlertNamesOnly(formData) ==
  IF formData.label = "" \/ formData.name = "" THEN "Label and Name are required"
  ELSE ""

\* the alert of handleSave (lines 354-366), "" when the field is accepted
SaveAlert(formData) ==
  IF formData.label = "" \/ formData.name = "" THEN "Label and Name are required"
  ELSE IF needsOptions(formData) /\ formData.options = <<>>
       THEN "At least one option is required"
  ELSE ""

\* handleFieldUpdate, lines 46-61
FieldUpdated(index, updatedField) ==
  LET currentField == fieldsWithStableIds[index]
      withIds == EditorField(updatedField.label, updatedField.name, updatedField.type,
                             updatedField.options, updatedField.conditionalFields,
                             "", "", index - 1)
  IN [fieldsWithStableIds EXCEPT ![index] =
        [withIds EXCEPT !._dragId = KeptDragId([withIds EXCEPT !._dragId = currentField._dragId],
                                             index - 1),
                        !._id = currentField._id]]

\* FieldEditor.handleSave, lines 353-370, with handleFieldUpdate
handleSave ==
  /\ UNCHANGED pageVars
  /\ Editing /\ edits < MaxEdits
  /\ edits' = edits + 1
  /\ \E i \in DOMAIN editors :
       LET formData == editors[i].formData
       IN /\ editors[i].isEditing
          /\ notice' = SaveAlert(formData)
          /\ IF SaveAlert(formData) # ""
             THEN UNCHANGED << formFields, fieldsWithStableIds, editors >>
             ELSE /\ SetFields(FieldUpdated(i, formData))
                  /\ editors' = [editors EXCEPT ![i].isEditing = FALSE]
  /\ saved' = NoSave
  /\ UNCHANGED << page, stored >>

\* the setError of handleSubmit, lines 59-99 and 283-324, "" when the list
\* passes
SubmitError(title, fs) ==
  IF title = "" THEN "Title is required"
  ELSE IF fs = <<>> THEN "At least one field is required"
  ELSE IF \E i \in DOMAIN fs : fs[i].name = "" \/ fs[i].label = ""
       THEN "Please complete all field configurations"
  ELSE IF \E i \in DOMAIN fs : fs[i].type \in {"select", "radio"} /\ fs[i].options = <<>>
       THEN "Radio and Select fields must have at least one option"
  ELSE ""

\* handleSubmit stopped by one of its checks
FormSubmitRejected ==
  /\ UNCHANGED pageVars
  /\ Editing /\ edits < MaxEdits
  /\ edits' = edits + 1
  /\ \E title \in Titles :
       /\ SubmitError(title, formFields) # ""
       /\ notice' = SubmitError(title, formFields)
  /\ saved' = NoSave
  /\ UNCHANGED << page, stored, formFields, fieldsWithStableIds, editors >>

\* handleSubmit: formsAPI.create (lines 326-333) or formsAPI.update (lines
\* 101-107) with the fields of the page, then router.push
FormSubmitSent ==
  /\ UNCHANGED pageVars
  /\ Editing /\ edits < MaxEdits
  /\ edits' = edits + 1
  /\ \E title \in Titles : SubmitError(title, formFields) = ""
  /\ saved' = [kind |-> IF page = "new" THEN "create" ELSE "update",
               fields |-> formFields]
  /\ page' = "left"
  /\ notice' = ""
  /\ UNCHANGED << stored, formFields, fieldsWithStableIds, editors >>

EditorNext ==
  \/ EditFetchForm
  \/ handleAddField
  \/ handleFieldDelete
  \/ handleDragEnd
  \/ EditClick
  \/ CancelClick
  \/ ChangeLabel
  \/ ChangeType
  \/ handleOptionsChange
  \/ NestedAddField
  \/ NestedChangeLabel
  \/ NestedDeleteField
  \/ handleSave
  \/ FormSubmitRejected
  \/ FormSubmitSent

EditorSpec == EditorInit /\ [][EditorNext]_vars

(***************************************************************************)
(* Properties of the editor, stated on the fields of the page, the field   *)
(* editors and what is handed to the forms service.                        *)
(***************************************************************************)
\* the persistent id and the drag identity of every field, in list order
Identities(fs) == [i \in DOMAIN fs |-> << fs[i]._id, fs[i]._dragId >>]

\* C14: a field's _dragId is not changed by handleDragEnd nor by
\* handleFieldUpdate: a reorder moves the identities with their fields, an
\* edit leaves the identity at its position as it is.
C14_IdentityStable ==
  [][ /\ handleDragEnd =>
           \E source \in DOMAIN formFields, destination \in DOMAIN formFields :
             Identities(formFields') = Moved(Identities(formFields), source, destination)
      /\ handleSave => Identities(formFields') = Identities(formFields) ]_vars

\* the two loaded fields have been swapped by a drag and the one that was
\* first has been saved from its editor as a select, its name kept
C14_Witness ==
  /\ page = "edit"
  /\ Len(stored) = 2 /\ Len(formFields) = 2
  /\ formFields[1]._id = stored[2]._id
  /\ formFields[2]._id = stored[1]._id
  /\ formFields[2].type = "select"
  /\ formFields[2].name = stored[1].name

\* C15: a field's identity is its existing token, else its persistent _id,
\* else one made from its non-empty name, else a positional one, in
\* generateStableId and in EditForm.fetchForm alike.
C15_IdentityPriority ==
  [][ EditFetchForm =>
        \A i \in DOMAIN stored :
          formFields'[i]._dragId = generateStableId(stored[i], i - 1) ]_vars

\* C16: no two fields of the list share a _dragId, whatever was loaded,
\* added, edited, reordered or deleted.
C16_IdentityUnique ==
  \A i \in DOMAIN fieldsWithStableIds, j \in DOMAIN fieldsWithStableIds :
    i # j => fieldsWithStableIds[i]._dragId # fieldsWithStableIds[j]._dragId

\* the names of a list of sibling fields are pairwise distinct; a field
\* that has not been given a name yet has none to share
NamesUnique(fs) ==
  \A i \in DOMAIN fs, j \in DOMAIN fs :
    (i # j /\ fs[i].name # "") => fs[i].name # fs[j].name

\* every list of nested fields of the field
NestedLists(field) ==
  {field.conditionalFields[b].value : b \in DOMAIN field.conditionalFields}

\* C17: on a page opened on a new form or on a document with unique names,
\* the names of the top-level fields are pairwise distinct, and so are the
\* names of the nested fields of one option, after any editor operations
\* and in every schema handed to the forms service.
C17_SiblingNamesUnique ==
  NamesUnique(stored) =>
    /\ NamesUnique(formFields)
    /\ \A i \in DOMAIN formFields :
         \A nested \in NestedLists(formFields[i]) : NamesUnique(nested)
    /\ saved.kind # "none" => NamesUnique(saved.fields)

\* C18: a radio or select without options is rejected at save: the field
\* editor does not hand it to the list, and no formsAPI.create or
\* formsAPI.update call carries one, at the top level or nested.
C18_OptionlessSelectableRejected ==
  /\ \A i \in DOMAIN formFields :
       formFields[i].type \in {"radio", "select"} => formFields[i].options # <<>>
  /\ saved.kind # "none" =>
       \A i \in DOMAIN saved.fields :
         /\ saved.fields[i].type \in {"radio", "select"} => saved.fields[i].options # <<>>
         /\ \A nested \in NestedLists(saved.fields[i]) :
              \A k \in DOMAIN nested : nested[k].type \notin {"radio", "select"}
  /\ (notice = "At least one option is required") =>
       \E i \in DOMAIN editors :
         /\ editors[i].isEditing
         /\ editors[i].formData.type \in {"radio", "select"}
         /\ editors[i].formData.options = <<>>

\* handleSave has just refused a select without options, and the field of
\* the list is still the text field it was
C18_Witness ==
  /\ notice = "At least one option is required"
  /\ \E i \in DOMAIN editors :
       /\ editors[i].isEditing
       /\ editors[i].formData.type = "select"
       /\ editors[i].formData.options = <<>>
       /\ editors[i].formData.label # ""
       /\ formFields[i].type = "text"

\* the options under which the field holds at least one nested field
BranchKeys(field) ==
  {field.conditionalFields[b].name :
     b \in {c \in DOMAIN field.conditionalFields : field.conditionalFields[c].value # <<>>}}

\* C19: in every field handed to the forms service, the keys of
\* conditionalFields are among the field's options, and only a radio or
\* select holds nested fields.
C19_BranchesMatchOptions ==
  saved.kind # "none" =>
    \A i \in DOMAIN saved.fields :
      LET field == saved.fields[i]
      IN /\ Keys(field.conditionalFields) \subseteq
              {field.options[k] : k \in DOMAIN field.options}
         /\ BranchKeys(field) # {} => field.type \in {"radio", "select"}

\* C20: once a field has a name in the list, no operation changes it:
\* the field with the same persistent id keeps its name.
C20_NameImmutable ==
  [][ \A i \in DOMAIN formFields, j \in DOMAIN formFields' :
        (formFields[i]._id = formFields'[j]._id /\ formFields[i].name # "")
          => formFields'[j].name = formFields[i].name ]_vars

(***************************************************************************)
(* Further properties of the fill page.                                    *)
(***************************************************************************)
\* the field kinds the page knows: the cases of generateValidationSchema and
\* of renderField
KnownKinds ==
  {"text", "textarea", "number", "email", "date", "checkbox", "radio", "select", "file"}

\* C21 (an unrecognized kind fails fast): a field whose type is none of the
\* known kinds gets no rule and no input, and no request carries a value
\* under its name.
C21_UnknownKindFailsFast ==
  \A k \in DOMAIN EffectiveFields :
    LET field == EffectiveFields[k]
    IN (FormShown /\ field.type \notin KnownKinds) =>
         /\ ~HasKey(validationSchema, field.name)
         /\ \A c \in DOMAIN Controls : Controls[c].name # field.name
         /\ \A a \in DOMAIN sent.answers : sent.answers[a].name # field.name

\* texts of a number input around the bounds of the number fields
NumberTexts == {"", "9", "17", "18", "30", "65", "66", "100"}

\* the number fields of the effective list that are required and bounded on
\* both sides
BoundedNumbers ==
  {k \in DOMAIN EffectiveFields :
     /\ EffectiveFields[k].type = "number"
     /\ EffectiveFields[k].required
     /\ Has(EffectiveFields[k].validation, "min")
     /\ Has(EffectiveFields[k].validation, "max")}

RequiredFiles ==
  {k \in DOMAIN EffectiveFields :
     EffectiveFields[k].type = "file" /\ EffectiveFields[k].required}

\* the values a file input holds when no file is chosen
NoFileValues == {Null, Undefined, Str("")}

FilledFiles ==
  {k \in DOMAIN EffectiveFields :
     /\ EffectiveFields[k].type = "file"
     /\ Get(values, EffectiveFields[k].name).k = "File"}

\* C24 (the wire shape follows the presence of file fields): a request is
\* multipart exactly when the effective field list holds a file field; a
\* multipart request holds, for every file field with a File, the answer with
\* the file's name as value and the File under the field's qualified name, and
\* attaches nothing else; a request that is not multipart attaches no file.
C24_WireShape ==
  (sent.kind # "none") =>
    /\ (sent.kind = "multipart") <=>
         (\E k \in DOMAIN EffectiveFields : EffectiveFields[k].type = "file")
    /\ \A k \in FilledFiles :
         LET field == EffectiveFields[k]
             value == Get(values, field.name)
         IN /\ \E a \in DOMAIN sent.answers :
                 sent.answers[a] = [name |-> field.name, value |-> value.s]
            /\ \E f \in DOMAIN sent.files :
                 sent.files[f] = [name |-> field.name, value |-> value]
    /\ \A f \in DOMAIN sent.files :
         \E k \in FilledFiles : EffectiveFields[k].name = sent.files[f].name
    /\ (sent.kind = "json") => sent.files = <<>>

\* lines 205-221: the first value of a field by its kind as the claim lists
\* them; nothing is said for a kind outside the list
IsFirstValueOfKind(type, v) ==
  CASE type \in {"text", "textarea", "email", "date", "select", "radio"} -> v = Str("")
    [] type = "checkbox"          -> v = Bool(FALSE)
    [] type \in {"number", "file"} -> v.k \in {"undefined", "null"}
    [] OTHER -> TRUE

\* C25 (one rule and one initial value per effective field): the rule set
\* and the initial values hold exactly one entry per field of the effective
\* field list, under the field's qualified name; the rule is the one made
\* for that field and the initial value is the first value of its kind.
C25_OneRulePerEffectiveField ==
  (~form.null) =>
    LET schema        == generateValidationSchema(form.fields, selectedValues)
        initialValues == getInitialValues(form.fields, selectedValues)
    IN /\ Len(schema) = Len(EffectiveFields)
       /\ Len(initialValues) = Len(EffectiveFields)
       /\ \A k \in DOMAIN EffectiveFields :
            LET field == EffectiveFields[k]
            IN /\ HasKey(schema, field.name)
               /\ Get(schema, field.name) = FieldSchema(field)
               /\ HasKey(initialValues, field.name)
               /\ IsFirstValueOfKind(field.type, Get(initialValues, field.name))

\* the options a rendered radio or select offers; a select has the empty
\* placeholder option too
SelectChoices(field) ==
  {field.options[i] : i \in DOMAIN field.options}
    \cup (IF field.type = "select" THEN {""} ELSE {})

\* C26 (only a selection event changes the selection state): the selection
\* state is empty when the page opens; a step changes it only as the onChange
\* of a rendered radio or select does, to the state with the chosen option
\* (for a select also the empty option) under that field's name; every step that leaves it alone (typing,
\* toggling, choosing a file, validating, submitting) leaves the effective
\* field list of a loaded form as it is.
C26_OnlySelectionChangesSelection ==
  /\ selectedValues = EmptyMap
  /\ [][ /\ (selectedValues' # selectedValues) =>
              /\ FormShown
              /\ \E c \in DOMAIN Controls :
                   /\ Selectable(Controls[c])
                   /\ \E option \in SelectChoices(Controls[c]) :
                        selectedValues' =
                          SelectionAfter(selectedValues, Controls[c].name, option)
         /\ (selectedValues' = selectedValues /\ ~form.null) =>
              getAllFields(form'.fields, selectedValues') = EffectiveFields ]_vars

\* a form has been submitted under a selection that brings nested fields
\* into the effective list, one of them holding an entered value
C26_Witness ==
  /\ sent.kind # "none"
  /\ selectedValues # EmptyMap
  /\ Len(EffectiveFields) > Len(form.fields)
  /\ \E k \in DOMAIN EffectiveFields :
       /\ \A i \in DOMAIN form.fields : form.fields[i].name # EffectiveFields[k].name
       /\ Truthy(Get(values, EffectiveFields[k].name))

\* C28 (selection and value agree): while the form is shown, the value of a
\* radio or select of the effective list is the option the selection state
\* holds for it.
C28_SelectionAndValueAgree ==
  FormShown =>
    \A k \in DOMAIN EffectiveFields :
      LET field == EffectiveFields[k]
      IN (Selectable(field) /\ Selected(selectedValues, field.name) # "") =>
           Get(values, field.name) = Str(Selected(selectedValues, field.name))

\* the qualified names of the conditional children, of every option, of the
\* top-level fields with the given name
ConditionalChildren(name) ==
  UNION { UNION { {name \o "_" \o branch.value[j].name : j \in DOMAIN branch.value} :
                  branch \in {form.fields[i].conditionalFields[c] :
                                c \in DOMAIN form.fields[i].conditionalFields} } :
          i \in {x \in DOMAIN form.fields : form.fields[x].name = name} }

\* C29 (a selection change touches only the parent's branch): the step that
\* picks an option on a parent keeps the value of every field that is
\* neither the parent nor one of its conditional children, and leaves every
\* conditional child of the parent that is in the new effective list with
\* the first value of its kind.
C29_SelectionTouchesOnlyBranch ==
  [][ (FormShown /\ lastSelection' # lastSelection) =>
        LET parent   == lastSelection'.name
            children == ConditionalChildren(parent)
            after    == getAllFields(form'.fields, selectedValues')
        IN /\ \A n \in Keys(values) \ ({parent} \cup children) :
                HasKey(values', n) /\ Get(values', n) = Get(values, n)
           /\ \A k \in DOMAIN after :
                after[k].name \in children =>
                  Get(values', after[k].name) = InitialValueOf(after[k]) ]_vars

(***************************************************************************)
(* Further properties of the editor.                                       *)
(***************************************************************************)
\* what the administrator defines of a field
DefinitionOf(field) ==
  [ label |-> field.label, name |-> field.name, type |-> field.type,
    options |-> field.options, conditionalFields |-> field.conditionalFields ]

\* C27 (no lost edit in the field editor): in every list handed to
\* onFieldsChange a field holds the definition it had in the list before,
\* unless the step is the save of that field from its editor, and then it
\* holds the definition of the editor; no add, delete, reorder or save of
\* another field changes it.
C27_NoLostEdit ==
  [][ \A i \in DOMAIN formFields, j \in DOMAIN formFields' :
        (formFields[i]._id = formFields'[j]._id) =>
          \/ DefinitionOf(formFields'[j]) = DefinitionOf(formFields[i])
          \/ /\ handleSave
             /\ i = j
             /\ editors[i].isEditing /\ ~editors'[i].isEditing
             /\ DefinitionOf(formFields'[j]) = editors[i].formData ]_vars

\* a field as the list holds it, apart from its position: its definition and
\* its persistent id
FieldsOf(fs) ==
  [i \in DOMAIN fs |-> [_id |-> fs[i]._id, definition |-> DefinitionOf(fs[i])]]

\* C30 (a reorder is a permutation): a drop of the field at the source index
\* on another index hands over the fields of the list with the dragged one
\* moved to the destination, the others in their order, none added, lost or
\* duplicated, and order equal to the position of every field; a drop with
\* no destination or on the source index leaves the list as it is.
C30_ReorderIsPermutation ==
  [][ \A source \in DOMAIN formFields,
         destination \in DOMAIN formFields \cup {NoDestination} :
        DragEndAt(source, destination) =>
          IF destination = NoDestination \/ source = destination
          THEN formFields' = formFields
          ELSE /\ FieldsOf(formFields') = Moved(FieldsOf(formFields), source, destination)
               /\ \A i \in DOMAIN formFields' : formFields'[i].order = i - 1 ]_vars

\* the part of C30 on the identities and the positions alone
C30_IdentitiesPermuted ==
  [][ \A source \in DOMAIN formFields,
         destination \in DOMAIN formFields \cup {NoDestination} :
        DragEndAt(source, destination) =>
          IF destination = NoDestination \/ source = destination
          THEN formFields' = formFields
          ELSE /\ Identities(formFields') = Moved(Identities(formFields), source, destination)
               /\ \A i \in DOMAIN formFields' : formFields'[i].order = i - 1 ]_vars

====
